---- MODULE Spec2Model ----
(***************************************************************************)
(* BalancedBaggingClassifier (imblearn/ensemble/_bagging.py): parameter    *)
(* validation, assembly of the (sampler, classifier) pipeline and the      *)
(* delegation of fit to the inherited bagging routine.                     *)
(*                                                                         *)
(* Python values are modelled as follows.  A value given for n_estimators  *)
(* is a record [type, val]: its Python type and the number it carries      *)
(* (2.0 is [type |-> "float", val |-> 2], the string "2" is                *)
(* [type |-> "str", val |-> 2], None is [type |-> "NoneType", val |-> 0]). *)
(* The other constructor parameters are passed through untouched by this   *)
(* class and are carried as the text of their Python literal.  Objects     *)
(* live in a heap, id -> [cls, params, fitted], so that clone() yields a   *)
(* different object with the same configuration.  A labelled dataset is    *)
(* the pair of its class counts <<n0, n1>>.                                *)
(***************************************************************************)
EXTENDS Integers, Sequences, FiniteSets, TLC

\* ------------------------------------------------------------------ bounds
MaxEstimators == 2   \* largest ensemble size tried
MaxRows       == 3   \* largest number of samples in a dataset

\* ------------------------------------------------------------ Python values
None == "None"

PyInt(v) == [type |-> "int", val |-> v]
NpInt(v) == [type |-> "numpy.int64", val |-> v]
Bool(v)  == [type |-> "bool", val |-> v]
Float(v) == [type |-> "float", val |-> v]
StrV(v)  == [type |-> "str", val |-> v]
NoneV    == [type |-> "NoneType", val |-> 0]

\* isinstance(v, (numbers.Integral, np.integer)); bool is a subclass of int
IsIntegral(v) == v.type \in {"int", "bool", "numpy.int64"}

Digit(d) == <<"0", "1", "2", "3", "4", "5", "6", "7", "8", "9">>[d + 1]

RECURSIVE NatToStr(_)
NatToStr(n) == IF n < 10 THEN <<Digit(n)>> ELSE NatToStr(n \div 10) \o <<Digit(n % 10)>>

IntToStr(n) == IF n < 0 THEN <<"-">> \o NatToStr(-n) ELSE NatToStr(n)

\* "{0}".format(v): the text of a value
FormatValue(v) ==
    CASE v.type \in {"int", "numpy.int64"} -> IntToStr(v.val)
      [] v.type = "bool"     -> IF v.val = 1 THEN <<"True">> ELSE <<"False">>
      [] v.type = "float"    -> IntToStr(v.val) \o <<".", "0">>
      [] v.type = "str"      -> IntToStr(v.val)
      [] v.type = "NoneType" -> <<"None">>

\* "{0}".format(type(v)): the text of a value's type
FormatType(v) == <<"<class '", v.type, "'>">>

NoError == [exc |-> "None", msg |-> <<>>]

ValueError(prefix, arg) == [exc |-> "ValueError", msg |-> <<prefix>> \o arg \o <<".">>]

\* ------------------------------------------------------------------ objects
DefaultId == 0   \* the DecisionTreeClassifier() made once as the default argument
TreeId    == 1   \* a caller's DecisionTreeClassifier(max_features='auto'), untrained
KnnId     == 2   \* a caller's KNeighborsClassifier(n_neighbors=3), already trained
NoneRef   == -1  \* base_estimator=None
FirstFree == KnnId + 1

InitialHeap ==
    (DefaultId :> [cls |-> "DecisionTreeClassifier", params |-> [max_features |-> None], fitted |-> FALSE])
 @@ (TreeId    :> [cls |-> "DecisionTreeClassifier", params |-> [max_features |-> "'auto'"], fitted |-> FALSE])
 @@ (KnnId     :> [cls |-> "KNeighborsClassifier", params |-> [n_neighbors |-> "3"], fitted |-> TRUE])

NoPipeline == [exists |-> FALSE, steps |-> <<>>]


\* -------------------------------------------------- the class's own code
\* __init__: the constructor stores its arguments; no fitted attribute exists yet
__init__(args) ==
    [base_estimator    |-> args.base_estimator,
     n_estimators      |-> args.n_estimators,
     max_samples       |-> args.max_samples,
     random_state      |-> args.random_state,
     sampling_strategy |-> args.sampling_strategy,
     ratio             |-> args.ratio,
     replacement       |-> args.replacement,
     base_estimator_   |-> NoPipeline,
     estimators_       |-> <<>>]

\* a slip: the sign is looked at before the type
check_n_estimators_sign_first(n) ==
    IF n.val <= 0
    THEN ValueError("n_estimators must be greater than zero, got ", FormatValue(n))
    ELSE IF ~IsIntegral(n)
         THEN ValueError("n_estimators must be an integer, got ", FormatType(n))
         ELSE NoError

\* a slip: the check n_estimators <= 0 is left out
check_n_estimators_type_only(n) ==
    IF ~IsIntegral(n)
    THEN ValueError("n_estimators must be an integer, got ", FormatType(n))
    ELSE NoError

\* a slip: the second message formats the type, as the first does
check_n_estimators_type_text(n) ==
    IF ~IsIntegral(n)
    THEN ValueError("n_estimators must be an integer, got ", FormatType(n))
    ELSE IF n.val <= 0
         THEN ValueError("n_estimators must be greater than zero, got ", FormatType(n))
         ELSE NoError

\* the two checks of n_estimators, in the order of the code
check_n_estimators(n) ==
    IF ~IsIntegral(n)
    THEN ValueError("n_estimators must be an integer, got ", FormatType(n))
    ELSE IF n.val <= 0
         THEN ValueError("n_estimators must be greater than zero, got ", FormatValue(n))
         ELSE NoError

\* sklearn.base.clone: a new, untrained object of the same class and parameters
clone(h, ref, new) == h @@ (new :> [h[ref] EXCEPT !.fitted = FALSE])

\* a slip: the estimator is used as it is, without clone()
base_estimator_not_cloned(obj, h, nid, default) ==
    IF obj.base_estimator # NoneRef
    THEN [heap |-> h, ref |-> obj.base_estimator]
    ELSE [heap |-> h, ref |-> default]

\* a slip: without a base estimator, something other than the default is cloned
base_estimator_other_default(obj, h, nid, default) ==
    IF obj.base_estimator # NoneRef
    THEN [heap |-> clone(h, obj.base_estimator, nid), ref |-> nid]
    ELSE [heap |-> clone(h, KnnId, nid), ref |-> nid]

\* base_estimator = clone(self.base_estimator) or clone(default): the clone
\* gets id nid
base_estimator_clone(obj, h, nid, default) ==
    IF obj.base_estimator # NoneRef
    THEN [heap |-> clone(h, obj.base_estimator, nid), ref |-> nid]
    ELSE [heap |-> clone(h, default, nid), ref |-> nid]

\* a slip: replacement is not handed on
RandomUnderSampler_no_replacement(obj) ==
    [cls    |-> "RandomUnderSampler",
     params |-> [sampling_strategy |-> obj.sampling_strategy,
                 replacement       |-> "False",
                 ratio             |-> obj.ratio],
     fitted |-> FALSE]

\* RandomUnderSampler(sampling_strategy=..., replacement=..., ratio=...)
RandomUnderSampler(obj) ==
    [cls    |-> "RandomUnderSampler",
     params |-> [sampling_strategy |-> obj.sampling_strategy,
                 replacement       |-> obj.replacement,
                 ratio             |-> obj.ratio],
     fitted |-> FALSE]

\* a slip: the estimator alone, as in the parent class
Pipeline_classifier_only(sampler, classifier) ==
    [exists |-> TRUE, steps |-> <<[name |-> "classifier", ref |-> classifier]>>]

\* Pipeline([('sampler', sampler), ('classifier', base_estimator)])
Pipeline(sampler, classifier) ==
    [exists |-> TRUE,
     steps  |-> <<[name |-> "sampler", ref |-> sampler],
                  [name |-> "classifier", ref |-> classifier]>>]

\* _validate_estimator: on success the sampler gets id nid + 1
_validate_estimator(obj, h, nid, default) ==
    LET err == check_n_estimators(obj.n_estimators)
        c   == base_estimator_clone(obj, h, nid, default)
        h2  == c.heap @@ ((nid + 1) :> RandomUnderSampler(obj))
    IN  IF err # NoError
        THEN [raised |-> err, self |-> obj, heap |-> h, next_id |-> nid]
        ELSE [raised |-> NoError,
              self |-> [obj EXCEPT !.base_estimator_ = Pipeline(nid + 1, c.ref)],
              heap |-> h2, next_id |-> nid + 2]

\* a slip: a weight is handed on
fit_arguments_weighted(obj, y) ==
    [y |-> y, max_samples |-> obj.max_samples, sample_weight |-> "sample_weight"]

\* fit: the arguments of the call self._fit(X, y, self.max_samples, sample_weight=None)
fit_arguments(obj, y) ==
    [y |-> y, max_samples |-> obj.max_samples, sample_weight |-> None]

\* a slip: the result of self._fit(...) is dropped
fit_return_nothing(r) == None

\* fit: return self._fit(...)
fit_return(r) == r

\* ------------------------------------- the collaborators, as the spec has them
Min(a, b) == IF a <= b THEN a ELSE b
Max(a, b) == IF a >= b THEN a ELSE b

IsSampler(o) == o.cls = "RandomUnderSampler"

\* Random undersampling of a subset <<a0, a1>>: the larger class is cut down to
\* the size of the smaller one; a subset with one class only is refused.
Resample(data) ==
    IF data[1] = 0 \/ data[2] = 0
    THEN [raised |-> ValueError("The target 'y' needs to have more than 1 class", <<>>),
          data |-> data]
    ELSE [raised |-> NoError,
          data |-> <<Min(data[1], data[2]), Min(data[1], data[2])>>]

\* clone(pipeline): every stage is cloned; the copies get the ids nid, nid + 1, ...
ClonePipeline(h, steps, nid) ==
    [heap  |-> h @@ [i \in nid .. (nid + Len(steps) - 1) |->
                        [h[steps[i - nid + 1].ref] EXCEPT !.fitted = FALSE]],
     steps |-> [k \in 1 .. Len(steps) |-> [name |-> steps[k].name, ref |-> nid + k - 1]]]

\* Pipeline.fit: the stages run in order.  A sampler stage replaces the data by
\* its resampling; the last stage is trained on the data that reaches it.
\* st = [heap, data, weight, sampler_in, sampler_weight, trained_on, log, raised]
RECURSIVE PipelineFit(_, _, _)
PipelineFit(steps, k, st) ==
    IF k > Len(steps) \/ st.raised # NoError THEN st
    ELSE LET ref == steps[k].ref
             o   == st.heap[ref]
             h   == [st.heap EXCEPT ![ref].fitted = TRUE]
         IN  IF IsSampler(o)
             THEN LET r == Resample(st.data)
                  IN  PipelineFit(steps, k + 1,
                        [st EXCEPT !.heap = IF r.raised = NoError THEN h ELSE st.heap,
                                   !.data = r.data,
                                   !.sampler_in = Append(@, st.data),
                                   !.sampler_weight = Append(@, st.weight),
                                   !.log = Append(@, "sampler.fit_resample"),
                                   !.raised = r.raised])
             ELSE IF k = Len(steps)
                  THEN [st EXCEPT !.heap = h,
                                  !.trained_on = Append(@, st.data),
                                  !.log = Append(@, "classifier.fit")]
                  ELSE [st EXCEPT !.raised =
                          [exc |-> "TypeError",
                           msg |-> <<"All intermediate steps should be samplers">>]]

\* number of samples each member draws: max_samples as a fraction of the
\* dataset (a float) or as a count (an int)
DrawSize(max_samples, y) ==
    IF max_samples.type = "float" THEN max_samples.val * (y[1] + y[2]) ELSE max_samples.val

\* the subsets of m samples a bootstrap draw from y can produce
Subsets(y, m) ==
    {d \in (0 .. m) \X (0 .. m) :
        /\ d[1] + d[2] = m
        /\ (y[1] = 0 => d[1] = 0)
        /\ (y[2] = 0 => d[2] = 0)}

\* The members are built one after the other; acc carries the heap, the next
\* free id, the members built so far, the log and the first error.
RECURSIVE BuildMembers(_, _, _, _, _, _)
BuildMembers(i, n, template, call, draws, acc) ==
    IF i > n \/ acc.raised # NoError THEN acc
    ELSE LET c  == ClonePipeline(acc.heap, template, acc.next_id)
             st == PipelineFit(c.steps, 1,
                     [heap |-> c.heap, data |-> draws[i], weight |-> call.sample_weight,
                      sampler_in |-> <<>>, sampler_weight |-> <<>>, trained_on |-> <<>>,
                      log |-> acc.log, raised |-> NoError])
             m  == [steps |-> c.steps, drawn |-> draws[i], sampler_in |-> st.sampler_in,
                    sampler_weight |-> st.sampler_weight, trained_on |-> st.trained_on]
         IN  BuildMembers(i + 1, n, template, call, draws,
               [heap |-> st.heap, next_id |-> acc.next_id + Len(template),
                members |-> IF st.raised = NoError THEN Append(acc.members, m) ELSE acc.members,
                log |-> st.log, raised |-> st.raised])

\* The inherited bagging fit.  The configuration is resolved first
\* (_validate_estimator); then every member is a clone of base_estimator_
\* fitted on its own draw.  It returns the instance.
_fit(obj, h, nid, call, draws) ==
    LET v == _validate_estimator(obj, h, nid, DefaultId)
        m == DrawSize(call.max_samples, call.y)
        n == v.self.n_estimators.val
        b == BuildMembers(1, n, v.self.base_estimator_.steps, call, draws,
               [heap |-> v.heap, next_id |-> v.next_id, members |-> <<>>,
                log |-> <<"_validate_estimator">>, raised |-> NoError])
    IN  IF v.raised # NoError
        THEN [self |-> v.self, heap |-> v.heap, validated |-> FALSE,
              value |-> None, raised |-> v.raised, log |-> <<"_validate_estimator">>]
        ELSE IF m < 1 \/ m > call.y[1] + call.y[2]
        THEN [self |-> v.self, heap |-> v.heap, validated |-> TRUE,
              value |-> None,
              raised |-> ValueError("max_samples must be in (0, n_samples]", <<>>),
              log |-> <<"_validate_estimator">>]
        ELSE [self |-> [v.self EXCEPT !.estimators_ = b.members],
              heap |-> b.heap, validated |-> TRUE,
              value |-> IF b.raised = NoError THEN "self" ELSE None,
              raised |-> b.raised, log |-> b.log]

\* the draws the members of one fit can get
DrawChoices(obj, y) ==
    LET n == obj.n_estimators.val
        m == DrawSize(obj.max_samples, y)
    IN  IF check_n_estimators(obj.n_estimators) = NoError /\ m >= 1 /\ m <= y[1] + y[2]
        THEN [1 .. n -> Subsets(y, m)]
        ELSE {<<>>}

\* ------------------------------------------------------------ object store
Given == {DefaultId, TreeId, KnnId}

StepRefs(steps) == {steps[k].ref : k \in 1 .. Len(steps)}

\* objects still referenced: the given ones, the stored pipeline's stages and
\* the members' stages
Reachable(obj) ==
    Given \cup StepRefs(obj.base_estimator_.steps)
          \cup UNION {StepRefs(obj.estimators_[i].steps) : i \in 1 .. Len(obj.estimators_)}

\* an id no object has
FreshId(h) == 1 + CHOOSE i \in DOMAIN h : \A j \in DOMAIN h : j <= i

\* Ids are addresses: an unreferenced object is freed and the live objects'
\* ids are renamed, in order, to the smallest ones (which object is which is
\* all that an id says).
Rename(obj, i) ==
    IF i \in Given THEN i
    ELSE FirstFree + Cardinality({j \in Reachable(obj) \ Given : j < i})

RenameSteps(obj, steps) ==
    [k \in 1 .. Len(steps) |-> [steps[k] EXCEPT !.ref = Rename(obj, steps[k].ref)]]

CollectHeap(h, obj) ==
    [k \in {Rename(obj, i) : i \in Reachable(obj)} |->
        h[CHOOSE i \in Reachable(obj) : Rename(obj, i) = k]]

CollectSelf(obj) ==
    [obj EXCEPT !.base_estimator_.steps = RenameSteps(obj, @),
                !.estimators_ = [i \in 1 .. Len(@) |->
                                   [@[i] EXCEPT !.steps = RenameSteps(obj, @)]]]

\* ------------------------------------------------------------------- inputs
NEstimatorsValues ==
    {PyInt(v) : v \in -1 .. MaxEstimators}
    \cup {NpInt(1), Bool(0), Bool(1), Float(0), Float(2), StrV(2), NoneV}

Settings ==
    {[max_samples |-> Float(1), sampling_strategy |-> "'auto'", replacement |-> "False",
      ratio |-> None, random_state |-> None],
     [max_samples |-> PyInt(2), sampling_strategy |-> "'majority'", replacement |-> "True",
      ratio |-> None, random_state |-> "42"],
     [max_samples |-> PyInt(2), sampling_strategy |-> "'auto'", replacement |-> "False",
      ratio |-> "'majority'", random_state |-> "0"]}

Arguments ==
    {[base_estimator |-> b, n_estimators |-> n, max_samples |-> s.max_samples,
      sampling_strategy |-> s.sampling_strategy, replacement |-> s.replacement,
      ratio |-> s.ratio, random_state |-> s.random_state] :
        b \in {NoneRef, TreeId, KnnId}, n \in NEstimatorsValues, s \in Settings}

Datasets == {y \in (0 .. MaxRows) \X (0 .. MaxRows) : y[1] + y[2] >= 1 /\ y[1] + y[2] <= MaxRows}

SmallDatasets == {y \in Datasets : y[1] = 1 /\ y[2] = 1}

NoCall == [y |-> <<0, 0>>, max_samples |-> NoneV, sample_weight |-> None]

\* -------------------------------------------------------------------- state
VARIABLES self, heap, last

vars == <<self, heap, last>>

Init ==
    /\ \E args \in Arguments : self = __init__(args)
    /\ heap = InitialHeap
    /\ last = [op |-> "__init__", call |-> NoCall, validated |-> FALSE, value |-> None,
               raised |-> NoError, log |-> <<>>]

\* set_params(...): the constructor parameters are plain attributes; one call
\* sets the ensemble size, the base estimator, or the sampling parameters
SetParams ==
    /\ \/ \E n \in NEstimatorsValues : self' = [self EXCEPT !.n_estimators = n]
       \/ \E b \in {NoneRef, TreeId, KnnId} : self' = [self EXCEPT !.base_estimator = b]
       \/ \E s \in Settings :
            self' = [self EXCEPT !.max_samples = s.max_samples,
                                 !.sampling_strategy = s.sampling_strategy,
                                 !.replacement = s.replacement,
                                 !.ratio = s.ratio,
                                 !.random_state = s.random_state]
    /\ self' # self
    /\ last' = [op |-> "set_params", call |-> NoCall, validated |-> FALSE, value |-> None,
                raised |-> NoError, log |-> <<>>]
    /\ UNCHANGED heap

\* fit(X, y), for a dataset of D
FitOn(D) ==
    \E y \in D : \E draws \in DrawChoices(self, y) :
        \E r \in {_fit(self, heap, FreshId(heap), fit_arguments(self, y), draws)} :
            /\ self' = CollectSelf(r.self)
            /\ heap' = CollectHeap(r.heap, r.self)
            /\ last' = [op |-> "fit", call |-> fit_arguments(self, y),
                        validated |-> r.validated, value |-> fit_return(r.value),
                        raised |-> r.raised, log |-> r.log]

Fit == FitOn(Datasets)

FitSmall == FitOn(SmallDatasets)

\* one instance, fitted again and again
Next == Fit

Spec == Init /\ [][Next]_vars

\* one instance whose parameters are changed between fits
NextParams == SetParams \/ FitSmall

SpecParams == Init /\ [][NextParams]_vars

\* ------------------------------------------------------------------- claims
\* what a call of fit left behind
FitCalled        == last.op = "fit"
FitReturned      == last.op = "fit" /\ last.raised = NoError
ValidationPassed == last.op = "fit" /\ last.validated
ValidationFailed == last.op = "fit" /\ ~last.validated

IntegerTyped(v) == v.type \in {"int", "numpy.int64", "bool"}
InvalidSize(v)  == ~IntegerTyped(v) \/ v.val <= 0

TypeMessage(v)  == <<"n_estimators must be an integer, got ", "<class '", v.type, "'>", ".">>

\* part occurs in msg as a run of consecutive pieces
Contains(msg, part) ==
    \E i \in 1 .. (Len(msg) - Len(part) + 1) : SubSeq(msg, i, i + Len(part) - 1) = part

ValueText(v) ==
    CASE v.type \in {"int", "numpy.int64", "str"} -> IntToStr(v.val)
      [] v.type = "float"    -> IntToStr(v.val) \o <<".", "0">>
      [] v.type = "bool"     -> <<IF v.val = 1 THEN "True" ELSE "False">>
      [] v.type = "NoneType" -> <<"None">>

TypeText(v) == <<"<class '", v.type, "'>">>

SamplerOf(steps)    == heap[steps[1].ref]
ClassifierOf(steps) == heap[steps[Len(steps)].ref]

\* a pipeline of two stages, a random undersampler and then a classifier
SamplerThenClassifier(steps) ==
    /\ Len(steps) = 2
    /\ steps[1].name = "sampler" /\ steps[2].name = "classifier"
    /\ heap[steps[1].ref].cls = "RandomUnderSampler"
    /\ heap[steps[2].ref].cls # "RandomUnderSampler"

Chosen == IF self.base_estimator = NoneRef THEN DefaultId ELSE self.base_estimator

\* subset a has its two classes nearer to each other in size than dataset y
MoreBalanced(a, y) == Min(a[1], a[2]) * Max(y[1], y[2]) > Min(y[1], y[2]) * Max(a[1], a[2])

Imbalanced(y) == y[1] >= 1 /\ y[2] >= 1 /\ y[1] # y[2]

RECURSIVE Repeat(_, _)
Repeat(s, n) == IF n <= 0 THEN <<>> ELSE s \o Repeat(s, n - 1)

\* C1: a fit with an n_estimators that is not an integer or is not positive
\* ends in a ValueError raised by the validation, and nothing was resampled or
\* trained on the way: the validation is the only step taken and no member exists.
C1_InvalidSizeFailsBeforeTraining ==
    (FitCalled /\ InvalidSize(self.n_estimators)) =>
        /\ last.raised.exc = "ValueError"
        /\ ~last.validated
        /\ last.value = None
        /\ last.log = <<"_validate_estimator">>
        /\ self.estimators_ = <<>>
        /\ \A i \in DOMAIN heap \ Given : ~heap[i].fitted

C1_Witness ==
    /\ FitCalled /\ self.n_estimators = PyInt(0)
    /\ last.raised.exc = "ValueError" /\ last.log = <<"_validate_estimator">>

\* C2 as stated: whenever the validation of n_estimators fails, the message
\* names the offending value.
C2_ErrorNamesValue ==
    ValidationFailed => Contains(last.raised.msg, ValueText(self.n_estimators))

\* C2, amended: an integer that is not positive is named by value; a value that
\* is not an integer is named by its type, and its value is not in the message.
C2_ErrorNamesValueOrType ==
    ValidationFailed =>
        IF IntegerTyped(self.n_estimators)
        THEN Contains(last.raised.msg, ValueText(self.n_estimators))
        ELSE /\ Contains(last.raised.msg, TypeText(self.n_estimators))
             /\ ~Contains(last.raised.msg, ValueText(self.n_estimators))

C2_Witness ==
    /\ ValidationFailed /\ self.n_estimators = PyInt(-1)
    /\ last.raised.msg = <<"n_estimators must be greater than zero, got ", "-", "1", ".">>

\* C3: without a base estimator, the validation stores a resampler followed by
\* a decision tree configured as the default one, and every member trained is
\* such a pair.
C3_DefaultIsTreeAfterSampler ==
    (ValidationPassed /\ self.base_estimator = NoneRef) =>
        /\ SamplerThenClassifier(self.base_estimator_.steps)
        /\ ClassifierOf(self.base_estimator_.steps).cls = "DecisionTreeClassifier"
        /\ ClassifierOf(self.base_estimator_.steps).params = InitialHeap[DefaultId].params
        /\ \A i \in 1 .. Len(self.estimators_) :
              /\ SamplerThenClassifier(self.estimators_[i].steps)
              /\ ClassifierOf(self.estimators_[i].steps).cls = "DecisionTreeClassifier"
              /\ ClassifierOf(self.estimators_[i].steps).fitted

C3_Witness ==
    /\ FitReturned /\ self.base_estimator = NoneRef
    /\ Len(self.estimators_) = 2

\* C4: after a validation that passed, base_estimator_ has exactly the stages
\* (sampler, classifier); its classifier is another object than the estimator
\* chosen, untrained, of the same class and parameters; the estimators given
\* and the default are as they were.
C4_PipelineHoldsUntrainedClone ==
    ValidationPassed =>
        /\ self.base_estimator_.exists
        /\ SamplerThenClassifier(self.base_estimator_.steps)
        /\ self.base_estimator_.steps[2].ref \notin Given
        /\ self.base_estimator_.steps[1].ref # self.base_estimator_.steps[2].ref
        /\ ClassifierOf(self.base_estimator_.steps) = [heap[Chosen] EXCEPT !.fitted = FALSE]
        /\ \A g \in Given : heap[g] = InitialHeap[g]

C4_Witness ==
    /\ ValidationPassed /\ self.base_estimator = KnnId
    /\ heap[KnnId].fitted
    /\ ~ClassifierOf(self.base_estimator_.steps).fitted
    /\ Len(self.estimators_) >= 1

\* C5: every call of fit hands _fit the instance's max_samples and no sample
\* weight, and no resampling step of any member is given a weight.
C5_NoSampleWeight ==
    FitCalled =>
        /\ last.call.sample_weight = None
        /\ last.call.max_samples = self.max_samples
        /\ \A i \in 1 .. Len(self.estimators_) :
              \A k \in 1 .. Len(self.estimators_[i].sampler_weight) :
                  self.estimators_[i].sampler_weight[k] = None

C5_Witness ==
    /\ FitReturned /\ self.max_samples = PyInt(2)
    /\ Len(self.estimators_) >= 1
    /\ self.estimators_[1].sampler_weight = <<None>>

\* C6: after a fit that returned, on a dataset with a smaller and a larger
\* class, every member's resampling step ran once, on the subset drawn for the
\* member and before its classifier was trained, and the classifier was
\* trained on a subset more balanced than the dataset.
C6_MembersTrainOnBalancedSubset ==
    (FitReturned /\ Imbalanced(last.call.y)) =>
        /\ \A i \in 1 .. Len(self.estimators_) :
              /\ self.estimators_[i].sampler_in = <<self.estimators_[i].drawn>>
              /\ Len(self.estimators_[i].trained_on) = 1
              /\ MoreBalanced(self.estimators_[i].trained_on[1], last.call.y)
        /\ last.log = <<"_validate_estimator">>
                      \o Repeat(<<"sampler.fit_resample", "classifier.fit">>,
                                Len(self.estimators_))

C6_Witness ==
    /\ FitReturned /\ last.call.y = <<2, 1>>
    /\ Len(self.estimators_) = 2
    /\ self.estimators_[1].drawn = <<2, 1>> /\ self.estimators_[1].trained_on = <<(<<1, 1>>)>>
    /\ self.estimators_[2].drawn = <<1, 2>>

\* C8 as stated: the sampler of the stored pipeline is made with the instance's
\* sampling strategy, replacement flag and random seed.
C8_SamplerGetsSeed ==
    ValidationPassed =>
        /\ SamplerOf(self.base_estimator_.steps).params.sampling_strategy = self.sampling_strategy
        /\ SamplerOf(self.base_estimator_.steps).params.replacement = self.replacement
        /\ "random_state" \in DOMAIN SamplerOf(self.base_estimator_.steps).params
        /\ SamplerOf(self.base_estimator_.steps).params.random_state = self.random_state

\* C8, amended: the sampler of the stored pipeline is made with the sampling
\* strategy, the replacement flag and the ratio the instance holds when it is
\* validated, and with nothing else: the random seed is not handed to it.
C8_SamplerGetsStrategyReplacementRatio ==
    ValidationPassed =>
        /\ DOMAIN SamplerOf(self.base_estimator_.steps).params
              = {"sampling_strategy", "replacement", "ratio"}
        /\ SamplerOf(self.base_estimator_.steps).params.sampling_strategy = self.sampling_strategy
        /\ SamplerOf(self.base_estimator_.steps).params.replacement = self.replacement
        /\ SamplerOf(self.base_estimator_.steps).params.ratio = self.ratio

\* a fit after the parameters were changed: the members of an earlier fit have
\* the old sampling parameters, the stored pipeline the present ones
C8_Witness ==
    /\ ValidationPassed /\ self.random_state = "42" /\ self.replacement = "True"
    /\ SamplerOf(self.base_estimator_.steps).params.replacement = "True"

\* C9: a fit that returned has n_estimators members; each is a copy of
\* base_estimator_ (the same stages, classes and parameters, in objects of its
\* own), trained once; and fit returns the instance.
C9_OnePipelinePerMember ==
    FitReturned =>
        /\ last.value = "self"
        /\ Len(self.estimators_) = self.n_estimators.val
        /\ \A i \in 1 .. Len(self.estimators_) :
              /\ Len(self.estimators_[i].steps) = Len(self.base_estimator_.steps)
              /\ \A k \in 1 .. Len(self.estimators_[i].steps) :
                    /\ self.estimators_[i].steps[k].name = self.base_estimator_.steps[k].name
                    /\ heap[self.estimators_[i].steps[k].ref]
                          = [heap[self.base_estimator_.steps[k].ref] EXCEPT !.fitted = TRUE]
              /\ StepRefs(self.estimators_[i].steps)
                    \cap (Given \cup StepRefs(self.base_estimator_.steps)) = {}
              /\ \A j \in 1 .. Len(self.estimators_) :
                    j # i => StepRefs(self.estimators_[i].steps)
                               \cap StepRefs(self.estimators_[j].steps) = {}
              /\ Len(self.estimators_[i].trained_on) = 1

C9_Witness ==
    /\ FitReturned /\ last.value = "self"
    /\ self.n_estimators = PyInt(2) /\ Len(self.estimators_) = 2

\* C10: a value that is not an integer gets the type message even when it is
\* not positive either; and a fit whose validation fails leaves the instance
\* and every object as they were (the stored pipeline, if any, is kept).
C10_FailedValidationChangesNothing ==
    [][ (last'.op = "fit" /\ ~last'.validated) =>
            /\ self' = self
            /\ heap' = heap
            /\ (~IntegerTyped(self.n_estimators)
                   => last'.raised.msg = TypeMessage(self.n_estimators)) ]_vars

C10_Witness ==
    /\ ValidationFailed /\ self.n_estimators = Float(0)
    /\ last.raised.msg = TypeMessage(Float(0))
    /\ self.base_estimator_.exists /\ Len(self.estimators_) >= 1

====
